---------------------------- MODULE Spec2Model ----------------------------
(***************************************************************************)
(* Model of src/src/krad.rs: the kradfile parser (nom combinators) and the *)
(* byte-length decode dispatch.  Bytes are integers 0..255, decoded text   *)
(* is a sequence of Unicode code points, an input slice is the sequence of *)
(* the bytes that remain.                                                  *)
(***************************************************************************)
EXTENDS Integers, Sequences, FiniteSets, TLC

VARIABLES
    doc,      \* the input as a sequence of lines (how buf was put together)
    term,     \* whether the last line of doc is followed by a newline byte
    buf,      \* the byte buffer handed to the function under check
    pc,       \* "ready" before the call, "done" after it
    result    \* what the call returned

vars == <<doc, term, buf, pc, result>>

-----------------------------------------------------------------------------
(* Bounds of the model *)

MaxLines == 4        \* lines of a multi-line input
MaxRadicals == 2     \* radical fields of the generated data line
MaxTokenLen == 4     \* length of a token handed to decode_jis on its own

-----------------------------------------------------------------------------
(* Bytes the grammar names *)

NL == 10             \* '\n'
SP == 32             \* ' '
HASH == 35           \* '#'

SEPARATOR == <<32, 58, 32>>

-----------------------------------------------------------------------------
(* Slices *)

Drop(b, n) == SubSeq(b, n + 1, Len(b))

Take(b, n) == SubSeq(b, 1, n)

StartsWith(b, p) == Len(b) >= Len(p) /\ Take(b, Len(p)) = p

(* Index of the first byte of b that lies in S, 0 when there is none. *)
Position(b, S) ==
    IF \E i \in 1..Len(b) : b[i] \in S
    THEN CHOOSE i \in 1..Len(b) : b[i] \in S /\ \A j \in 1..(i - 1) : b[j] \notin S
    ELSE 0

-----------------------------------------------------------------------------
(* The two-byte codepoint table, keyed by the EUC form of the code.  The    *)
(* table itself (jis213.rs) is not part of the sources; these are the      *)
(* entries the tests of krad.rs rely on, and the cells of rows 0xA1 and    *)
(* 0xB0 that the byte alphabet of the model can spell.                     *)

JisTable ==
    (41377 :> 12288)     \* A1A1 -> U+3000
 @@ (41392 :> 65342)     \* A1B0 -> U+FF3E
 @@ (41411 :> 65372)     \* A1C3 -> U+FF5C
 @@ (45217 :> 20124)     \* B0A1 -> U+4E9C
 @@ (45232 :> 26093)     \* B0B0 -> U+65ED
 @@ (45292 :> 19968)     \* B0EC -> U+4E00
 @@ (47357 :> 21475)     \* B8FD -> U+53E3
 @@ (53937 :> 21241)     \* D2B1 -> U+52F9

jis_to_utf8(code) ==
    IF code \in DOMAIN JisTable
    THEN [some |-> TRUE, ch |-> JisTable[code]]
    ELSE [some |-> FALSE, ch |-> 0]

-----------------------------------------------------------------------------
(* EUCJPEncoding.decode(b, DecoderTrap::Strict): the decoder of the        *)
(* encoding crate.  One byte 00..7F is one character; 8E and a byte        *)
(* A1..DF is a half-width katakana; 8F and two bytes A1..FE is a JIS X     *)
(* 0212 cell; two bytes A1..FE are a JIS X 0208 cell.  Anything else, an   *)
(* unassigned cell or a sequence cut short is an error, and in strict mode *)
(* the first error fails the whole decode.                                 *)

Jis0208 ==
    (41377 :> 12288) @@ (41392 :> 65342) @@ (41411 :> 65372)
 @@ (45217 :> 20124) @@ (45232 :> 26093) @@ (45292 :> 19968)
 @@ (47357 :> 21475) @@ (53937 :> 21241)

Jis0212 ==
    (45217 :> 19970)     \* 8F B0A1 -> U+4E02
 @@ (45232 :> 20033)     \* 8F B0B0 -> U+4E41

IsTrail(b, i) == i <= Len(b) /\ b[i] >= 161 /\ b[i] <= 254

RECURSIVE EucJpFrom(_, _, _)
EucJpFrom(b, i, acc) ==
    IF i > Len(b) THEN [ok |-> TRUE, val |-> acc]
    ELSE IF b[i] <= 127 THEN EucJpFrom(b, i + 1, Append(acc, b[i]))
    ELSE IF b[i] = 142 THEN
        IF i + 1 <= Len(b) /\ b[i + 1] >= 161 /\ b[i + 1] <= 223
        THEN EucJpFrom(b, i + 2, Append(acc, 65377 + b[i + 1] - 161))
        ELSE [ok |-> FALSE, val |-> <<>>]
    ELSE IF b[i] = 143 THEN
        IF IsTrail(b, i + 1) /\ IsTrail(b, i + 2)
           /\ (b[i + 1] * 256 + b[i + 2]) \in DOMAIN Jis0212
        THEN EucJpFrom(b, i + 3, Append(acc, Jis0212[b[i + 1] * 256 + b[i + 2]]))
        ELSE [ok |-> FALSE, val |-> <<>>]
    ELSE IF b[i] >= 161 /\ b[i] <= 254 THEN
        IF IsTrail(b, i + 1) /\ (b[i] * 256 + b[i + 1]) \in DOMAIN Jis0208
        THEN EucJpFrom(b, i + 2, Append(acc, Jis0208[b[i] * 256 + b[i + 1]]))
        ELSE [ok |-> FALSE, val |-> <<>>]
    ELSE [ok |-> FALSE, val |-> <<>>]

EucJpDecodeStrict(b) == EucJpFrom(b, 1, <<>>)

-----------------------------------------------------------------------------
(* decode_jis and bytes_to_u32 *)

(* out += byte << 8 * i over the bytes in reverse: the last byte is the   *)
(* low one.  decode_jis calls it with two bytes only, so the sum stays     *)
(* below 2^16 and the u32 never wraps.                                     *)
RECURSIVE bytes_to_u32_le(_)
bytes_to_u32_le(b) ==
    IF b = <<>> THEN 0
    ELSE bytes_to_u32_le(Tail(b)) * 256 + b[1]

RECURSIVE bytes_to_u32(_)
bytes_to_u32(b) ==
    IF b = <<>> THEN 0
    ELSE bytes_to_u32(Take(b, Len(b) - 1)) * 256 + b[Len(b)]

DecodeOk(s, via) == [ok |-> TRUE, val |-> s, err |-> "", via |-> via]

DecodeErr(e, via) == [ok |-> FALSE, val |-> <<>>, err |-> e, via |-> via]

(* via records which collaborator the match arm consulted. *)
decode_jis(b) ==
    IF Len(b) = 2 THEN
        LET unicode == jis_to_utf8(bytes_to_u32(b))
        IN  IF unicode.some THEN DecodeOk(<<unicode.ch>>, "jis_to_utf8")
            ELSE DecodeErr("Jis", "jis_to_utf8")
    ELSE IF Len(b) = 3 THEN
        LET s == EucJpDecodeStrict(b)
        IN  IF s.ok THEN DecodeOk(s.val, "EUCJPEncoding")
            ELSE DecodeErr("EucJp", "EUCJPEncoding")
    ELSE DecodeErr("Jis", "none")

-----------------------------------------------------------------------------
(* nom results.  kind is "Ok", "Error" (Err::Error, recoverable) or        *)
(* "Incomplete" (Err::Incomplete, raised by the streaming is_not); rest is *)
(* the remaining input and out the parsed value.                           *)

Ok(rest, out) == [kind |-> "Ok", rest |-> rest, out |-> out]

Error(b) == [kind |-> "Error", rest |-> b, out |-> <<>>]

Incomplete(b) == [kind |-> "Incomplete", rest |-> b, out |-> <<>>]

Decomposition(k, rs) == [kanji |-> k, radicals |-> rs]

-----------------------------------------------------------------------------
(* The nom parsers the grammar is built from.  A parser takes the input    *)
(* and returns a result; a combinator is written as an operator on the     *)
(* result of the parser that ran before it.                                *)

(* character::complete::char(c) *)
char(b, c) == IF b # <<>> /\ b[1] = c THEN Ok(Tail(b), <<c>>) ELSE Error(b)

(* bytes::complete::tag(t) *)
tag(b, t) == IF StartsWith(b, t) THEN Ok(Drop(b, Len(t)), t) ELSE Error(b)

(* bytes::complete::take_until(c) for a one-byte pattern: the span before  *)
(* the first c, which may be empty; an Error when there is no c.           *)
take_until(b, c) ==
    LET p == Position(b, {c})
    IN  IF p = 0 THEN Error(b) ELSE Ok(Drop(b, p - 1), Take(b, p - 1))

(* bytes::streaming::is_not(S): the longest span without a byte of S.  An  *)
(* empty span is an Error; the input running out before a byte of S is     *)
(* found is Incomplete, also on the empty input.                           *)
is_not(b, S) ==
    LET p == Position(b, S)
    IN  IF p = 0 THEN Incomplete(b)
        ELSE IF p = 1 THEN Error(b)
        ELSE Ok(Drop(b, p - 1), Take(b, p - 1))

(* map_res(f, decode_jis) on f's result r: an Err of decode_jis, whichever *)
(* it is, becomes the recoverable Err::Error (ErrorKind::MapRes).          *)
map_res_decode_jis(r) ==
    IF r.kind # "Ok" THEN r
    ELSE LET d == decode_jis(r.out)
         IN  IF d.ok THEN Ok(r.rest, d.val) ELSE Error(r.rest)

(* value((), f) on f's result r *)
value_unit(r) == IF r.kind = "Ok" THEN Ok(r.rest, <<>>) ELSE r

(* opt(char('\n')): the input after an optional newline *)
opt_newline(b) == IF char(b, NL).kind = "Ok" THEN char(b, NL).rest ELSE b

-----------------------------------------------------------------------------
(* The grammar *)

(* pair(char('#'), take_until("\n")) after char('#') returned h *)
comment_text(h) == IF h.kind = "Ok" THEN value_unit(take_until(h.rest, NL)) ELSE h

(* value((), pair(char('#'), take_until("\n"))) *)
comment(b) == comment_text(char(b, HASH))

(* separated_list0(char('\n'), comment), written as nom writes it: the     *)
(* first element, then separator and element in turn.  An Err::Error of    *)
(* the separator or of the element ends the list at the input before the   *)
(* separator; any other Err is returned.                                   *)
RECURSIVE comments_rest(_)
comments_elem(i, c) ==
    IF c.kind = "Ok" THEN comments_rest(c.rest)
    ELSE IF c.kind = "Error" THEN Ok(i, <<>>)
    ELSE c

comments_sep(i, s) ==
    IF s.kind = "Ok" THEN comments_elem(i, comment(s.rest)) ELSE Ok(i, <<>>)

comments_rest(i) == comments_sep(i, char(i, NL))

(* At most one comment: opt(comment) in place of the list. *)
comments_one_elem(b, c) == IF c.kind = "Ok" THEN Ok(c.rest, <<>>) ELSE Ok(b, <<>>)

comments_one(b) == comments_one_elem(b, comment(b))

(* value((), separated_list0(char('\n'), comment)) *)
comments(b) == comments_elem(b, comment(b))

(* map_res(is_not(" \n"), decode_jis) *)
radical(b) == map_res_decode_jis(is_not(b, {SP, NL}))

(* separated_list1(char(' '), radical): as separated_list0, but the first  *)
(* element is required.                                                    *)
RECURSIVE radicals_rest(_, _)
radicals_elem(i, res, r) ==
    IF r.kind = "Ok" THEN radicals_rest(r.rest, Append(res, r.out))
    ELSE IF r.kind = "Error" THEN Ok(i, res)
    ELSE r

radicals_sep(i, res, s) ==
    IF s.kind = "Ok" THEN radicals_elem(i, res, radical(s.rest)) ELSE Ok(i, res)

radicals_rest(i, res) == radicals_sep(i, res, char(i, SP))

radicals_head(r) ==
    IF r.kind = "Ok" THEN radicals_rest(r.rest, <<r.out>>) ELSE r

(* Only the first radical: the list's loop left out. *)
radicals_first_head(r) == IF r.kind = "Ok" THEN Ok(r.rest, <<r.out>>) ELSE r

radicals_first(b) == radicals_first_head(radical(b))

(* separated_list0 in place of separated_list1: no radical is an empty    *)
(* list instead of an error.                                               *)
radicals_list0(b) == radicals_elem(b, <<>>, radical(b))

(* separated_list1(char(' '), radical) *)
radicals(b) == radicals_head(radical(b))

(* map_res(take_until(" "), decode_jis): the span up to the first space,   *)
(* whatever else it holds.                                                 *)
kanji(b) == map_res_decode_jis(take_until(b, SP))

(* separated_pair(kanji, tag(SEPARATOR), radicals), result by result: k of *)
(* kanji, s of the tag, rs of radicals; then map's Decomposition.          *)
kanji_line_radicals(k, rs) ==
    IF rs.kind = "Ok" THEN Ok(rs.rest, Decomposition(k.out, rs.out)) ELSE rs

kanji_line_tag(k, s) ==
    IF s.kind = "Ok" THEN kanji_line_radicals(k, radicals(s.rest)) ELSE s

kanji_line_kanji(k) ==
    IF k.kind = "Ok" THEN kanji_line_tag(k, tag(k.rest, SEPARATOR)) ELSE k

(* map(separated_pair(kanji, tag(SEPARATOR), radicals), Decomposition) *)
kanji_line(b) == kanji_line_kanji(kanji(b))

(* separated_pair(comments, opt(char('\n')), kanji_line) after comments    *)
(* returned c                                                              *)
next_kanji_comments(c) ==
    IF c.kind = "Ok" THEN kanji_line(opt_newline(c.rest)) ELSE c

(* map(separated_pair(comments, opt(char('\n')), kanji_line), second) *)
next_kanji(b) == next_kanji_comments(comments(b))

(* separated_list1(char('\n'), next_kanji) *)
RECURSIVE lines_rest(_, _)
lines_elem(i, res, r) ==
    IF r.kind = "Ok" THEN lines_rest(r.rest, Append(res, r.out))
    ELSE IF r.kind = "Error" THEN Ok(i, res)
    ELSE r

lines_sep(i, res, s) ==
    IF s.kind = "Ok" THEN lines_elem(i, res, next_kanji(s.rest)) ELSE Ok(i, res)

lines_rest(i, res) == lines_sep(i, res, char(i, NL))

lines_head(r) ==
    IF r.kind = "Ok" THEN lines_rest(r.rest, <<r.out>>) ELSE r

(* separated_list0 in place of separated_list1: no record is an empty     *)
(* list instead of an error.                                               *)
lines_list0(b) == lines_elem(b, <<>>, next_kanji(b))

(* separated_list1(char('\n'), next_kanji) *)
lines(b) == lines_head(next_kanji(b))

KradOk(o) == [kind |-> "Ok", val |-> o, err |-> ""]

KradErr(e) == [kind |-> "Err", val |-> <<>>, err |-> e]

(* .map(|(_i, o)| o).map_err(|_err| KradError::Parse) on the result r of   *)
(* lines: the remaining input is dropped, every Err becomes Parse.         *)
krad_result(r) == IF r.kind = "Ok" THEN KradOk(r.out) ELSE KradErr("Parse")

(* lines(b).map(|(_i, o)| o).map_err(|_err| KradError::Parse) *)
parse_bytes(b) == krad_result(lines(b))

-----------------------------------------------------------------------------
(* Inputs.  A line is a data line (a kanji token k, the separator, the     *)
(* radical tokens rs joined by single spaces), a comment line ('#' and the *)
(* text k) or a raw line (the bytes k as they are).                        *)

DataLine(k, rs) == [kind |-> "data", k |-> k, rs |-> rs]

CommentLine(text) == [kind |-> "comment", k |-> text, rs |-> <<>>]

RawLine(bytes) == [kind |-> "raw", k |-> bytes, rs |-> <<>>]

RECURSIVE Join(_)
Join(rs) ==
    IF rs = <<>> THEN <<>>
    ELSE IF Len(rs) = 1 THEN rs[1]
    ELSE rs[1] \o <<SP>> \o Join(Tail(rs))

LineBytes(l) ==
    IF l.kind = "data" THEN l.k \o SEPARATOR \o Join(l.rs)
    ELSE IF l.kind = "comment" THEN <<HASH>> \o l.k
    ELSE l.k

(* The buffer of a document: every line followed by a newline byte, the    *)
(* last one only when t.                                                   *)
RECURSIVE Render(_, _)
Render(d, t) ==
    IF d = <<>> THEN <<>>
    ELSE IF Len(d) = 1 THEN LineBytes(d[1]) \o (IF t THEN <<NL>> ELSE <<>>)
    ELSE LineBytes(d[1]) \o <<NL>> \o Render(Tail(d), t)

SeqsUpTo(S, n) == UNION {[1..k -> S] : k \in 0..n}

G2 == <<176, 161>>              \* B0 A1: in the codepoint table
G3 == <<143, 176, 161>>         \* 8F B0 A1: one JIS X 0212 character
A3 == <<97, 97, 97>>            \* "aaa": three single-byte characters
U2 == <<97, 97>>                \* "aa": no table entry
I3 == <<176, 161, 176>>         \* B0 A1 B0: a two-byte cell cut short
L1 == <<97>>                    \* one byte
L4 == <<176, 161, 176, 161>>    \* four bytes
H3 == <<35, 97, 97>>            \* "#aa": decodable, first byte the comment marker

Tokens == {G2, G3, A3, U2, I3, L1, L4, H3}

(* One data line, its fields drawn from Tokens. *)
FocusDocs == {<<DataLine(k, rs)>> : k \in Tokens, rs \in SeqsUpTo(Tokens, MaxRadicals)}

CtxLines ==
    { DataLine(G2, <<G3, G2>>), DataLine(G3, <<G2>>),
      CommentLine(<<>>), CommentLine(<<SP, 97>>),
      DataLine(U2, <<G2>>), DataLine(G2, <<G2, U2>>), DataLine(G2, <<I3>>),
      DataLine(G2, <<>>), RawLine(<<>>), RawLine(G2) }

(* Up to MaxLines lines, each drawn from CtxLines. *)
CtxDocs == SeqsUpTo(CtxLines, MaxLines)

Docs == FocusDocs \cup CtxDocs

(* Tokens handed to decode_jis on their own. *)
TokenBytes == {NL, 97, 142, 143, 161, 176}

TokenInputs == SeqsUpTo(TokenBytes, MaxTokenLen)

-----------------------------------------------------------------------------
(* The specifications: the input is drawn, then the function is called. *)

None == [kind |-> "None", val |-> <<>>, err |-> ""]

Init ==
    /\ doc \in Docs
    /\ term \in BOOLEAN
    /\ (doc = <<>> => term)
    /\ buf = Render(doc, term)
    /\ pc = "ready"
    /\ result = None

ParseBytes ==
    /\ pc = "ready"
    /\ result' = parse_bytes(buf)
    /\ pc' = "done"
    /\ UNCHANGED <<doc, term, buf>>

Next == ParseBytes

Spec == Init /\ [][Next]_vars

InitDecode ==
    /\ doc = <<>>
    /\ term = TRUE
    /\ buf \in TokenInputs
    /\ pc = "ready"
    /\ result = None

DecodeJis ==
    /\ pc = "ready"
    /\ result' = decode_jis(buf)
    /\ pc' = "done"
    /\ UNCHANGED <<doc, term, buf>>

NextDecode == DecodeJis

SpecDecode == InitDecode /\ [][NextDecode]_vars

-----------------------------------------------------------------------------
(* Vocabulary of the properties *)

BytesOf(t) == {t[i] : i \in 1..Len(t)}

(* A field the grammar delimits as written: not empty, no space, no        *)
(* newline.                                                                *)
IsField(t) == t # <<>> /\ SP \notin BytesOf(t) /\ NL \notin BytesOf(t)

(* A decodable 2-byte or 3-byte token. *)
ValidToken(t) == IsField(t) /\ Len(t) \in {2, 3} /\ decode_jis(t).ok

IsData(l) == l.kind = "data"

IsComment(l) == l.kind = "comment" /\ NL \notin BytesOf(l.k)

(* A data line of the shape K SEP R1 (SPACE Ri)*, whatever its tokens      *)
(* decode to; its first byte is not the comment marker.                    *)
ShapedDataLine(l) ==
    /\ IsData(l)
    /\ IsField(l.k) /\ l.k[1] # HASH
    /\ l.rs # <<>>
    /\ \A i \in 1..Len(l.rs) : IsField(l.rs[i])

ValidDataLine(l) ==
    /\ ShapedDataLine(l)
    /\ ValidToken(l.k)
    /\ \A i \in 1..Len(l.rs) : ValidToken(l.rs[i])

(* Comment lines and shaped data lines only, at least one data line. *)
ShapedDoc(d) ==
    /\ \A i \in 1..Len(d) : IsComment(d[i]) \/ ShapedDataLine(d[i])
    /\ \E i \in 1..Len(d) : IsData(d[i])

ValidDoc(d) ==
    /\ \A i \in 1..Len(d) : IsComment(d[i]) \/ ValidDataLine(d[i])
    /\ \E i \in 1..Len(d) : IsData(d[i])

CommentOnly(d) == d # <<>> /\ \A i \in 1..Len(d) : IsComment(d[i])

(* The tokens of the data lines of d, in field order. *)
RECURSIVE TokensOf(_)
TokensOf(d) ==
    IF d = <<>> THEN <<>>
    ELSE (IF IsData(d[1]) THEN <<d[1].k>> \o d[1].rs ELSE <<>>) \o TokensOf(Tail(d))

IsBad(t) == ~decode_jis(t).ok

HasBadToken(d) == \E i \in 1..Len(TokensOf(d)) : IsBad(TokensOf(d)[i])

FirstBadToken(d) == SelectSeq(TokensOf(d), IsBad)[1]

(* The taxonomy member a token that fails to decode stands for. *)
MemberOf(t) ==
    IF Len(t) = 2 THEN "Jis" ELSE IF Len(t) = 3 THEN "EucJp" ELSE "Length"

(* The record a data line stands for: each token decoded on its own. *)
DecodeLine(l) ==
    Decomposition(decode_jis(l.k).val,
                  [i \in 1..Len(l.rs) |-> decode_jis(l.rs[i]).val])

ExpectedRecords(d) ==
    LET ds == SelectSeq(d, IsData)
    IN  [i \in 1..Len(ds) |-> DecodeLine(ds[i])]

Done == pc = "done"

EndsWithNewline(b) == b # <<>> /\ b[Len(b)] = NL

-----------------------------------------------------------------------------
(* The properties *)

(* C1: if any kanji or radical token of any data line fails to decode,     *)
(* parse_bytes returns an error and never an Ok list, however many valid   *)
(* data lines precede the bad token and whichever field it is.             *)
C1_AllOrNothing ==
    (Done /\ term /\ ShapedDoc(doc) /\ HasBadToken(doc)) => result.kind = "Err"

(* C2: the error parse_bytes returns names the taxonomy member: Jis for an *)
(* unmapped 2-byte token, EucJp for an invalid 3-byte token, a third       *)
(* member for any other length; a decode failure is never reported as the  *)
(* grammar error Parse.                                                    *)
C2_ErrorNamesMember ==
    (Done /\ term /\ ShapedDoc(doc) /\ HasBadToken(doc) /\ result.kind = "Err")
        => result.err = MemberOf(FirstBadToken(doc))

(* C3: every buffer that does not end with a newline byte makes            *)
(* parse_bytes fail with Parse, whatever precedes the unterminated last    *)
(* line and whatever that line holds.                                      *)
C3_UnterminatedFails ==
    (Done /\ ~EndsWithNewline(buf)) => result = KradErr("Parse")

(* C4: parse_bytes fails with Parse on the empty buffer and on every       *)
(* buffer of newline-terminated comment lines only; every Ok result holds  *)
(* at least one record.                                                    *)
C4_EmptyOrCommentOnlyFails ==
    Done =>
        /\ (buf = <<>> \/ (CommentOnly(doc) /\ term)) => result = KradErr("Parse")
        /\ result.kind = "Ok" => Len(result.val) >= 1

C4_Witness ==
    Done /\ term /\ CommentOnly(doc) /\ Len(doc) >= 2 /\ result = KradErr("Parse")

(* C5: comment lines inserted at any line boundary of n >= 1 valid data    *)
(* lines leave the result unchanged: exactly n records, the i-th the       *)
(* decoding of the i-th data line, in file order.                          *)
C5_CommentInsertionInvariance ==
    (Done /\ term /\ ValidDoc(doc)) => result = KradOk(ExpectedRecords(doc))

C5_Witness ==
    /\ Done /\ term /\ ValidDoc(doc)
    /\ \E i \in 1..(Len(doc) - 1) : IsComment(doc[i]) /\ IsComment(doc[i + 1])
    /\ Len(SelectSeq(doc, IsData)) = 2
    /\ result.kind = "Ok" /\ Len(result.val) = 2

(* C6: a valid single data line K SEP R1 (SPACE Ri)* and its newline parse *)
(* to exactly one record, kanji decode(K) and radicals the decode(Ri) in   *)
(* order with duplicates kept, and the parser stops with exactly the final *)
(* newline byte unconsumed.                                                *)
C6_SingleLineRecord ==
    (Done /\ term /\ Len(doc) = 1 /\ ValidDataLine(doc[1])) =>
        /\ result = KradOk(<<DecodeLine(doc[1])>>)
        /\ lines(buf).rest = <<NL>>

C6_Witness ==
    /\ Done /\ term /\ Len(doc) = 1 /\ ValidDataLine(doc[1])
    /\ Len(doc[1].rs) = 2 /\ doc[1].rs[1] = doc[1].rs[2]
    /\ result.kind = "Ok" /\ Len(result.val[1].radicals) = 2

(* C7: in every record of every Ok result the kanji is exactly one         *)
(* character of decoded text, also for a 3-byte kanji token.               *)
C7_KanjiIsOneCharacter ==
    (Done /\ result.kind = "Ok") =>
        \A i \in 1..Len(result.val) : Len(result.val[i].kanji) = 1

(* C8: in every record of every Ok result the radicals list has length at  *)
(* least 1.                                                                *)
C8_RadicalsNonEmpty ==
    (Done /\ result.kind = "Ok") =>
        \A i \in 1..Len(result.val) : Len(result.val[i].radicals) >= 1

C8_Witness ==
    /\ Done /\ result.kind = "Ok"
    /\ \E i \in 1..Len(result.val) : Len(result.val[i].radicals) = 1

(* C9: decode_jis dispatches on the byte length alone: 2 bytes go to the   *)
(* codepoint table only, with code = byte0 * 256 + byte1 < 65536; 3 bytes  *)
(* go to the strict multi-byte decoder only; any other length fails        *)
(* without consulting either.                                              *)
C9_DispatchByLength ==
    Done =>
        /\ Len(buf) = 2 =>
            LET code == buf[1] * 256 + buf[2]
            IN  /\ code < 65536
                /\ result.via = "jis_to_utf8"
                /\ result.ok = (code \in DOMAIN JisTable)
                /\ result.ok => result.val = <<JisTable[code]>>
        /\ Len(buf) = 3 =>
            /\ result.via = "EUCJPEncoding"
            /\ result.ok = EucJpDecodeStrict(buf).ok
            /\ result.ok => result.val = EucJpDecodeStrict(buf).val
        /\ Len(buf) \notin {2, 3} => ~result.ok /\ result.via = "none"

C9_Witness == Done /\ Len(buf) = 2 /\ result.ok /\ buf[1] # buf[2]

(* C10: every token that ends up in a returned record is a non-empty span  *)
(* without a space byte and without a newline byte; no kanji was decoded   *)
(* from bytes of two lines.  A token that decodes and holds the byte 0x0A  *)
(* or 0x20 is a 3-byte token whose text holds that byte as a character, so *)
(* the property is stated on the text of the records.                      *)
C10_TokensWithinALine ==
    (Done /\ result.kind = "Ok") =>
        \A i \in 1..Len(result.val) :
            /\ IsField(result.val[i].kanji)
            /\ \A j \in 1..Len(result.val[i].radicals) :
                   IsField(result.val[i].radicals[j])

=============================================================================
